---- MODULE Spec2Model ----
(***************************************************************************)
(* Verification model of four fragments of the repository:                 *)
(*   - QConfigMapping        (torch/ao/quantization/qconfig_mapping.py)    *)
(*   - tryrebase.main        (.github/scripts/tryrebase.py)                *)
(*   - the CSE pass modify   (cse.py, exercised by unittest_cse.py)        *)
(*   - roll and rot90        (torch/_refs/__init__.py)                     *)
(* Each fragment has its own specification (SpecQCM, SpecRebase, SpecCSE,  *)
(* SpecRefs) over its own variables; the variables of the other fragments  *)
(* stay at their idle values.                                              *)
(***************************************************************************)
EXTENDS Integers, Sequences, FiniteSets, TLC

VARIABLES
    \* ---- QConfigMapping (self.*) ----
    global_qconfig,                          \* self.global_qconfig
    object_type_qconfigs,                    \* OrderedDict, as a sequence of <<key, qconfig>>
    module_name_regex_qconfigs,              \* OrderedDict
    module_name_qconfigs,                    \* OrderedDict
    module_name_object_type_order_qconfigs,  \* OrderedDict keyed by <<name, type, index>>
    calls,                                   \* history: the setter calls made so far
    restored,                                \* result of from_dict(to_dict()) when last applied
    \* ---- tryrebase.main ----
    args,          \* parse_args(): [dry_run, stable, pr_num]
    pr,            \* the GitHubPR: [closed, ghstack, default_branch, head_ref]
    run_url,       \* os.getenv("GH_RUN_URL")
    pc,            \* position of main
    log,           \* external effects so far: git and ghstack commands, comments
    exc,           \* the exception raised inside the try block, if any
    push_result,   \* output of the push / of ghstack
    \* ---- cse.modify ----
    graph,         \* fx_g.graph.nodes, as far as the loop of modify has read them
    new_graph,     \* the nodes of new_graph
    env,           \* env: node of the old graph (by position) -> node of new_graph
    hash_env,      \* hash_env: hash_val -> node of new_graph
    cse_pc,        \* "loop" | "done" (returned new_graph) | "raised"
    \* ---- torch._refs.roll, torch._refs.rot90 ----
    input,         \* the tensor a of the call
    call,          \* the call made: [fn, shifts, dims, k]
    ret,           \* what the call gave: the tensor returned or the exception raised
    refs_pc        \* "ready" | "done"

qcm_vars == <<global_qconfig, object_type_qconfigs, module_name_regex_qconfigs,
              module_name_qconfigs, module_name_object_type_order_qconfigs,
              calls, restored>>

rebase_vars == <<args, pr, run_url, pc, log, exc, push_result>>

cse_vars == <<graph, new_graph, env, hash_env, cse_pc>>

refs_vars == <<input, call, ret, refs_pc>>

vars == <<qcm_vars, rebase_vars, cse_vars, refs_vars>>

\* What the actions of one fragment leave alone.
others_than_qcm == <<rebase_vars, cse_vars, refs_vars>>
others_than_rebase == <<qcm_vars, cse_vars, refs_vars>>
others_than_cse == <<qcm_vars, rebase_vars, refs_vars>>
others_than_refs == <<qcm_vars, rebase_vars, cse_vars>>

(***************************************************************************)
(* QConfigMapping                                                          *)
(***************************************************************************)

\* Bound on the number of setter calls made on one QConfigMapping.
MaxSetCalls == 3

\* Python's None (the initial global_qconfig, and a legal QConfigAny).
None == "None"

QConfigs == {"qconfig1", "qconfig2", None}
ObjectTypes == {"Linear", "relu"}
Regexes == {"foo.*bar", "foo.*"}
ModuleNames == {"module1", "module2"}
OrderKeys == {<<"module1", "Linear", 0>>, <<"module1", "Linear", 1>>}

GLOBAL_DICT_KEY == ""
OBJECT_TYPE_DICT_KEY == "object_type"
MODULE_NAME_REGEX_DICT_KEY == "module_name_regex"
MODULE_NAME_DICT_KEY == "module_name"
MODULE_NAME_OBJECT_TYPE_ORDER_DICT_KEY == "module_name_object_type_order"

\* Position of key k in the ordered dict d (0 when absent).
KeyIndex(d, k) ==
    IF \E i \in 1..Len(d) : d[i][1] = k
    THEN CHOOSE i \in 1..Len(d) : d[i][1] = k
    ELSE 0

DictKeys(d) == [i \in 1..Len(d) |-> d[i][1]]

\* Mutant: assignment to an existing key moves the key to the end.
DictSetMoveToEnd(d, k, v) ==
    LET rest == SelectSeq(d, LAMBDA e : e[1] # k)
    IN Append(rest, <<k, v>>)

\* Mutant: assignment to an existing key keeps the old value (setdefault).
DictSetKeepOld(d, k, v) ==
    IF KeyIndex(d, k) # 0 THEN d ELSE Append(d, <<k, v>>)

\* OrderedDict.__setitem__: d[k] = v. An existing key keeps its position and
\* takes the new value; a new key is appended.
DictSet(d, k, v) ==
    IF KeyIndex(d, k) # 0
    THEN [d EXCEPT ![KeyIndex(d, k)] = <<k, v>>]
    ELSE Append(d, <<k, v>>)

\* A QConfigMapping object as a record of its five attributes.
Mapping(g, ot, re, mn, mo) ==
    [global_qconfig |-> g,
     object_type_qconfigs |-> ot,
     module_name_regex_qconfigs |-> re,
     module_name_qconfigs |-> mn,
     module_name_object_type_order_qconfigs |-> mo]

\* QConfigMapping.__init__
EmptyMapping == Mapping(None, <<>>, <<>>, <<>>, <<>>)

Self == Mapping(global_qconfig, object_type_qconfigs, module_name_regex_qconfigs,
                module_name_qconfigs, module_name_object_type_order_qconfigs)

\* The setters as functions on a mapping record (used by from_dict on conf).
MapSetGlobal(m, q) == [m EXCEPT !.global_qconfig = q]
MapSetObjectType(m, k, q) ==
    [m EXCEPT !.object_type_qconfigs = DictSet(@, k, q)]
MapSetModuleNameRegex(m, k, q) ==
    [m EXCEPT !.module_name_regex_qconfigs = DictSet(@, k, q)]
MapSetModuleName(m, k, q) ==
    [m EXCEPT !.module_name_qconfigs = DictSet(@, k, q)]
MapSetModuleNameObjectTypeOrder(m, name, type, index, q) ==
    [m EXCEPT !.module_name_object_type_order_qconfigs = DictSet(@, <<name, type, index>>, q)]

\* list(d.items())
Items(d) == d

\* [(*k, v) for k, v in d.items()]: the 3-tuple key is flattened into a 4-tuple.
FlatItems(d) == [i \in 1..Len(d) |-> <<d[i][1][1], d[i][1][2], d[i][1][3], d[i][2]>>]

\* QConfigMapping.to_dict
ToDict(m) ==
    [k \in {GLOBAL_DICT_KEY, OBJECT_TYPE_DICT_KEY, MODULE_NAME_REGEX_DICT_KEY,
            MODULE_NAME_DICT_KEY, MODULE_NAME_OBJECT_TYPE_ORDER_DICT_KEY} |->
        CASE k = GLOBAL_DICT_KEY -> m.global_qconfig
          [] k = OBJECT_TYPE_DICT_KEY -> Items(m.object_type_qconfigs)
          [] k = MODULE_NAME_REGEX_DICT_KEY -> Items(m.module_name_regex_qconfigs)
          [] k = MODULE_NAME_DICT_KEY -> Items(m.module_name_qconfigs)
          [] OTHER -> FlatItems(m.module_name_object_type_order_qconfigs)]

\* qconfig_dict.get(key, [])
DictGet(qconfig_dict, key) ==
    IF key \in DOMAIN qconfig_dict THEN qconfig_dict[key] ELSE <<>>

\* for k, qconfig in items: conf.set_xxx(k, qconfig), in list order.
RECURSIVE FoldPairs(_, _, _)
FoldPairs(m, items, kind) ==
    IF items = <<>> THEN m
    ELSE LET e == Head(items)
             m1 == CASE kind = OBJECT_TYPE_DICT_KEY -> MapSetObjectType(m, e[1], e[2])
                     [] kind = MODULE_NAME_REGEX_DICT_KEY -> MapSetModuleNameRegex(m, e[1], e[2])
                     [] kind = MODULE_NAME_DICT_KEY -> MapSetModuleName(m, e[1], e[2])
                     [] OTHER -> MapSetModuleNameObjectTypeOrder(m, e[1], e[2], e[3], e[4])
         IN FoldPairs(m1, Tail(items), kind)

\* Mutant: from_dict walks each list from its end.
RECURSIVE Reverse(_)
Reverse(s) == IF s = <<>> THEN <<>> ELSE Append(Reverse(Tail(s)), Head(s))

FromDictReversed(qconfig_dict) ==
    LET c0 == IF GLOBAL_DICT_KEY \in DOMAIN qconfig_dict
              THEN MapSetGlobal(EmptyMapping, qconfig_dict[GLOBAL_DICT_KEY])
              ELSE EmptyMapping
        c1 == FoldPairs(c0, Reverse(DictGet(qconfig_dict, OBJECT_TYPE_DICT_KEY)), OBJECT_TYPE_DICT_KEY)
        c2 == FoldPairs(c1, Reverse(DictGet(qconfig_dict, MODULE_NAME_REGEX_DICT_KEY)), MODULE_NAME_REGEX_DICT_KEY)
        c3 == FoldPairs(c2, Reverse(DictGet(qconfig_dict, MODULE_NAME_DICT_KEY)), MODULE_NAME_DICT_KEY)
    IN FoldPairs(c3, Reverse(DictGet(qconfig_dict, MODULE_NAME_OBJECT_TYPE_ORDER_DICT_KEY)),
                 MODULE_NAME_OBJECT_TYPE_ORDER_DICT_KEY)

\* QConfigMapping.from_dict
FromDict(qconfig_dict) ==
    LET c0 == IF GLOBAL_DICT_KEY \in DOMAIN qconfig_dict
              THEN MapSetGlobal(EmptyMapping, qconfig_dict[GLOBAL_DICT_KEY])
              ELSE EmptyMapping
        c1 == FoldPairs(c0, DictGet(qconfig_dict, OBJECT_TYPE_DICT_KEY), OBJECT_TYPE_DICT_KEY)
        c2 == FoldPairs(c1, DictGet(qconfig_dict, MODULE_NAME_REGEX_DICT_KEY), MODULE_NAME_REGEX_DICT_KEY)
        c3 == FoldPairs(c2, DictGet(qconfig_dict, MODULE_NAME_DICT_KEY), MODULE_NAME_DICT_KEY)
    IN FoldPairs(c3, DictGet(qconfig_dict, MODULE_NAME_OBJECT_TYPE_ORDER_DICT_KEY),
                 MODULE_NAME_OBJECT_TYPE_ORDER_DICT_KEY)

\* Marker for "from_dict(to_dict()) has not been applied to the current mapping".
NotRestored == <<>>

\* The other fragments at rest.
IdleRebase ==
    /\ args = <<>> /\ pr = <<>> /\ run_url = "" /\ pc = "idle"
    /\ log = <<>> /\ exc = "" /\ push_result = <<>>

IdleCSE ==
    /\ graph = <<>> /\ new_graph = <<>> /\ env = <<>> /\ hash_env = <<>>
    /\ cse_pc = "idle"

IdleQCM ==
    /\ global_qconfig = "" /\ object_type_qconfigs = <<>>
    /\ module_name_regex_qconfigs = <<>> /\ module_name_qconfigs = <<>>
    /\ module_name_object_type_order_qconfigs = <<>>
    /\ calls = <<>> /\ restored = <<>>

IdleRefs ==
    /\ input = <<>> /\ call = <<>> /\ ret = <<>> /\ refs_pc = "idle"

InitQCM ==
    /\ IdleRebase
    /\ IdleCSE
    /\ IdleRefs
    /\ global_qconfig = None
    /\ object_type_qconfigs = <<>>
    /\ module_name_regex_qconfigs = <<>>
    /\ module_name_qconfigs = <<>>
    /\ module_name_object_type_order_qconfigs = <<>>
    /\ calls = <<>>
    /\ restored = NotRestored

Call(kind, key, q) == <<kind, <<key>>, q>>

set_global ==
    /\ Len(calls) < MaxSetCalls
    /\ \E q \in QConfigs :
        /\ global_qconfig' = q
        /\ calls' = Append(calls, Call(GLOBAL_DICT_KEY, GLOBAL_DICT_KEY, q))
    /\ restored' = NotRestored
    /\ UNCHANGED others_than_qcm
    /\ UNCHANGED <<object_type_qconfigs, module_name_regex_qconfigs,
                   module_name_qconfigs, module_name_object_type_order_qconfigs>>

set_object_type ==
    /\ Len(calls) < MaxSetCalls
    /\ \E k \in ObjectTypes, q \in QConfigs :
        /\ object_type_qconfigs' = DictSet(object_type_qconfigs, k, q)
        /\ calls' = Append(calls, Call(OBJECT_TYPE_DICT_KEY, k, q))
    /\ restored' = NotRestored
    /\ UNCHANGED others_than_qcm
    /\ UNCHANGED <<global_qconfig, module_name_regex_qconfigs,
                   module_name_qconfigs, module_name_object_type_order_qconfigs>>

set_module_name_regex ==
    /\ Len(calls) < MaxSetCalls
    /\ \E k \in Regexes, q \in QConfigs :
        /\ module_name_regex_qconfigs' = DictSet(module_name_regex_qconfigs, k, q)
        /\ calls' = Append(calls, Call(MODULE_NAME_REGEX_DICT_KEY, k, q))
    /\ restored' = NotRestored
    /\ UNCHANGED others_than_qcm
    /\ UNCHANGED <<global_qconfig, object_type_qconfigs,
                   module_name_qconfigs, module_name_object_type_order_qconfigs>>

set_module_name ==
    /\ Len(calls) < MaxSetCalls
    /\ \E k \in ModuleNames, q \in QConfigs :
        /\ module_name_qconfigs' = DictSet(module_name_qconfigs, k, q)
        /\ calls' = Append(calls, Call(MODULE_NAME_DICT_KEY, k, q))
    /\ restored' = NotRestored
    /\ UNCHANGED others_than_qcm
    /\ UNCHANGED <<global_qconfig, object_type_qconfigs,
                   module_name_regex_qconfigs, module_name_object_type_order_qconfigs>>

set_module_name_object_type_order ==
    /\ Len(calls) < MaxSetCalls
    /\ \E k \in OrderKeys, q \in QConfigs :
        /\ module_name_object_type_order_qconfigs' =
               DictSet(module_name_object_type_order_qconfigs, <<k[1], k[2], k[3]>>, q)
        /\ calls' = Append(calls, Call(MODULE_NAME_OBJECT_TYPE_ORDER_DICT_KEY, k, q))
    /\ restored' = NotRestored
    /\ UNCHANGED others_than_qcm
    /\ UNCHANGED <<global_qconfig, object_type_qconfigs,
                   module_name_regex_qconfigs, module_name_qconfigs>>

\* QConfigMapping.from_dict(self.to_dict()); self is left alone.
to_dict_from_dict ==
    /\ restored = NotRestored
    /\ restored' = <<FromDict(ToDict(Self))>>
    /\ UNCHANGED others_than_qcm
    /\ UNCHANGED <<global_qconfig, object_type_qconfigs, module_name_regex_qconfigs,
                   module_name_qconfigs, module_name_object_type_order_qconfigs, calls>>

NextQCM ==
    \/ set_global
    \/ set_object_type
    \/ set_module_name_regex
    \/ set_module_name
    \/ set_module_name_object_type_order
    \/ to_dict_from_dict

SpecQCM == InitQCM /\ [][NextQCM]_vars

(***************************************************************************)
(* QConfigMapping: history operators and claims                            *)
(***************************************************************************)

\* The calls of one setter, in the order they were made.
CallsOf(kind) == SelectSeq(calls, LAMBDA c : c[1] = kind)

\* The keys of a call sequence in the order each was first used.
RECURSIVE FirstKeys(_)
FirstKeys(cs) ==
    IF cs = <<>> THEN <<>>
    ELSE LET front == FirstKeys(SubSeq(cs, 1, Len(cs) - 1))
             k == cs[Len(cs)][2][1]
         IN IF \E i \in 1..Len(front) : front[i] = k THEN front ELSE Append(front, k)

\* The QConfig given by the most recent call of the sequence for key k.
LastQConfig(cs, k) ==
    LET last == CHOOSE i \in 1..Len(cs) :
                    /\ cs[i][2][1] = k
                    /\ \A j \in (i + 1)..Len(cs) : cs[j][2][1] # k
    IN cs[last][3]

\* The ordered dict d holds exactly one entry per key set through cs, each with
\* the QConfig of the most recent call for that key.
LastWriteWins(d, cs) ==
    /\ {d[i][1] : i \in 1..Len(d)} = {cs[i][2][1] : i \in 1..Len(cs)}
    /\ \A i, j \in 1..Len(d) : d[i][1] = d[j][1] => i = j
    /\ \A i \in 1..Len(d) : d[i][2] = LastQConfig(cs, d[i][1])

\* C8: after any sequence of set_module_name_regex calls the regexes are held in
\* the order of their first registration; re-setting a registered regex
\* overrides its QConfig in place and adds no second entry.
C8_RegexOrderIsFirstRegistration ==
    LET cs == CallsOf(MODULE_NAME_REGEX_DICT_KEY)
    IN /\ DictKeys(module_name_regex_qconfigs) = FirstKeys(cs)
       /\ \A i \in 1..Len(module_name_regex_qconfigs) :
              module_name_regex_qconfigs[i][2] =
                  LastQConfig(cs, module_name_regex_qconfigs[i][1])

\* C8 witness: a regex registered first, another registered after it, and then
\* the first one set again with a different QConfig.
C8_Witness ==
    LET cs == CallsOf(MODULE_NAME_REGEX_DICT_KEY)
    IN /\ Len(cs) = 3
       /\ cs[1][2] = cs[3][2]
       /\ cs[1][2] # cs[2][2]
       /\ cs[1][3] # cs[3][3]
       /\ Len(module_name_regex_qconfigs) = 2

\* C9: after any sequence of set_global, set_object_type, set_module_name and
\* set_module_name_object_type_order calls, each key holds the QConfig of the
\* most recent set call for it, there is exactly one entry per key, and
\* global_qconfig is the argument of the last set_global.
C9_LastSetWins ==
    /\ LastWriteWins(object_type_qconfigs, CallsOf(OBJECT_TYPE_DICT_KEY))
    /\ LastWriteWins(module_name_qconfigs, CallsOf(MODULE_NAME_DICT_KEY))
    /\ LastWriteWins(module_name_object_type_order_qconfigs,
                     CallsOf(MODULE_NAME_OBJECT_TYPE_ORDER_DICT_KEY))
    /\ LET gs == CallsOf(GLOBAL_DICT_KEY)
       IN global_qconfig = IF gs = <<>> THEN None ELSE gs[Len(gs)][3]

\* C9 witness: a (module name, object type, index) key set twice with different
\* QConfigs, after a set_global.
C9_Witness ==
    LET cs == CallsOf(MODULE_NAME_OBJECT_TYPE_ORDER_DICT_KEY)
    IN /\ Len(cs) = 2
       /\ cs[1][2] = cs[2][2]
       /\ cs[1][3] # cs[2][3]
       /\ CallsOf(GLOBAL_DICT_KEY) # <<>>
       /\ global_qconfig # None

\* C10: from_dict(to_dict(m)) has the same global QConfig and the same four
\* ordered mappings (keys, values and order) as m.
C10_ToDictFromDictRoundTrip ==
    restored # NotRestored => restored[1] = Self

\* C10 witness: the round trip applied to a mapping with two regexes and a
\* (module name, object type, index) entry.
C10_Witness ==
    /\ restored # NotRestored
    /\ Len(module_name_regex_qconfigs) = 2
    /\ Len(module_name_object_type_order_qconfigs) = 1

(***************************************************************************)
(* tryrebase.main                                                          *)
(***************************************************************************)

\* Bound on the number of lines of ghstack's output that name a pull request.
MaxPushLines == 2

PRNums == {1, 2}
DefaultBranches == {"master", "main"}
VIABLE_STRICT == "refs/remotes/origin/viable/strict"
NoExc == "none"
NoUrl == "unset"
RunUrls == {NoUrl, "https://github.com/run/1"}

\* pr.head_ref(), as path components.
HeadRefs(ghstack) == IF ghstack THEN {<<"gh", "user", "1", "head">>} ELSE {<<"feature">>}

\* branch = f"pull/{pr.pr_num}/head"
Branch(p) == <<"pull", ToString(p.pr_num), "head">>

\* re.sub(r'/head$', '/orig', pr.head_ref())
OrigRef(p) ==
    LET h == p.head_ref
    IN IF Len(h) > 1 /\ h[Len(h)] = "head" THEN [h EXCEPT ![Len(h)] = "orig"] ELSE h

\* Mutant: the rebase target ignores --stable.
OntoBranchIgnoresStable(stable, p) == p.default_branch

\* onto_branch = "refs/remotes/origin/viable/strict" if stable else pr.default_branch()
OntoBranch(stable, p) == IF stable THEN VIABLE_STRICT ELSE p.default_branch

\* One external effect. Every event carries the same fields.
Ev(op, dry, onto, ref, num, what, text) ==
    [op |-> op, dry |-> dry, onto |-> onto, ref |-> ref, pr_num |-> num,
     what |-> what, text |-> text]

\* repo.fetch(ref, ref) / repo._run_git("rebase", onto, ref) / repo._run_git("push", ...)
GitFetch(ref) == Ev("fetch", FALSE, "", ref, 0, "", <<>>)
GitRebase(onto, ref) == Ev("rebase", FALSE, onto, ref, 0, "", <<>>)
GitPush(dry, ref) == Ev("push", dry, "", ref, 0, "", <<>>)

\* subprocess.run([...]) of ghstack --help, pip install ghstack, ghstack
Subprocess(cmd) == Ev(cmd, FALSE, "", <<>>, 0, "", <<>>)

\* gh_post_comment(org, project, num, <comment>, dry_run=dry); the comment is
\* kept as its kind (what), the PR it is posted on, the branch and ref it names
\* and, for a failure, its text.
Comment(num, what, onto, ref, text, dry) == Ev("comment", dry, onto, ref, num, what, text)

\* The lines of ghstack's output that name a pull request.
PushLines == {"Updated", "Skipped"} \X PRNums
GhstackOutputs == UNION {[1..n -> PushLines] : n \in 0..MaxPushLines}

\* The comments of the loop over push_result.splitlines() followed by the
\* "Skipped" test, for the output lines ls.
RECURSIVE UpdatedComments(_, _, _, _)
UpdatedComments(ls, p, onto, dry) ==
    IF ls = <<>> THEN <<>>
    ELSE LET l == Head(ls)
             rest == UpdatedComments(Tail(ls), p, onto, dry)
         IN IF l[1] = "Updated"
            THEN IF l[2] # p.pr_num
                 THEN <<Comment(l[2], "rebased_because", onto, OrigRef(p), <<>>, dry)>> \o rest
                 ELSE <<Comment(l[2], "success", onto, OrigRef(p), <<>>, dry)>> \o rest
            ELSE rest

SkippedComment(ls, p, dry) ==
    IF \E i \in 1..Len(ls) : ls[i] = <<"Skipped", p.pr_num>>
    THEN <<Comment(p.pr_num, "already_up_to_date", "", <<>>, <<>>, dry)>>
    ELSE <<>>

InitRebase ==
    /\ IdleQCM
    /\ IdleCSE
    /\ IdleRefs
    /\ args \in [dry_run : BOOLEAN, stable : BOOLEAN, pr_num : PRNums]
    /\ \E closed \in BOOLEAN, ghstack \in BOOLEAN, b \in DefaultBranches :
         \E h \in HeadRefs(ghstack) :
           pr = [closed |-> closed, ghstack |-> ghstack, default_branch |-> b,
                 head_ref |-> h, pr_num |-> args.pr_num]
    /\ run_url \in RunUrls
    /\ pc = "main"
    /\ log = <<>>
    /\ exc = NoExc
    /\ push_result = <<>>

\* A git or ghstack command fails: the exception leaves the try block.
Raise(e) ==
    /\ exc' = e
    /\ pc' = "except"

\* Mutant: main comments on a closed PR and then goes on to rebase it.
main_is_closed_falls_through ==
    /\ pc = "main"
    /\ pr.closed
    /\ log' = Append(log, Comment(args.pr_num, "closed", "", <<>>, <<>>, args.dry_run))
    /\ pc' = IF pr.ghstack THEN "ghstack_help" ELSE "fetch"
    /\ UNCHANGED <<args, pr, run_url, exc, push_result>>
    /\ UNCHANGED others_than_rebase

\* main, lines 108-110: if pr.is_closed(): comment and return.
main_is_closed ==
    /\ pc = "main"
    /\ pr.closed
    /\ log' = Append(log, Comment(args.pr_num, "closed", "", <<>>, <<>>, args.dry_run))
    /\ pc' = "returned"
    /\ UNCHANGED <<args, pr, run_url, exc, push_result>>
    /\ UNCHANGED others_than_rebase

\* main, lines 108 and 112-116: an open PR enters the try block.
main_try ==
    /\ pc = "main"
    /\ ~pr.closed
    /\ pc' = IF pr.ghstack THEN "ghstack_help" ELSE "fetch"
    /\ UNCHANGED <<args, pr, run_url, log, exc, push_result>>
    /\ UNCHANGED others_than_rebase

\* rebase_onto, line 27: repo.fetch(branch, branch)
rebase_onto_fetch ==
    /\ pc = "fetch"
    /\ log' = Append(log, GitFetch(Branch(pr)))
    /\ \/ pc' = "rebase" /\ UNCHANGED exc
       \/ Raise("fetch failed")
    /\ UNCHANGED <<args, pr, run_url, push_result>>
    /\ UNCHANGED others_than_rebase

\* rebase_onto, line 28: repo._run_git("rebase", onto_branch, branch)
rebase_onto_rebase ==
    /\ pc = "rebase"
    /\ log' = Append(log, GitRebase(OntoBranch(args.stable, pr), Branch(pr)))
    /\ \/ pc' = "push" /\ UNCHANGED exc
       \/ Raise("rebase conflict")
    /\ UNCHANGED <<args, pr, run_url, push_result>>
    /\ UNCHANGED others_than_rebase

\* Mutant: the push never carries --dry-run.
PushDryFlagDropped(dry_run) == FALSE

\* rebase_onto, lines 29-32: "--dry-run" is passed to git push iff dry_run.
PushDryFlag(dry_run) == dry_run

\* rebase_onto, lines 29-32: the push, whose output is kept in push_result.
rebase_onto_push ==
    /\ pc = "push"
    /\ log' = Append(log, GitPush(PushDryFlag(args.dry_run), pr.head_ref))
    /\ \/ /\ pc' = "comment"
          /\ \E up_to_date \in BOOLEAN :
                push_result' = IF up_to_date THEN <<"Everything up-to-date">> ELSE <<"forced update">>
          /\ UNCHANGED exc
       \/ Raise("push failed") /\ UNCHANGED push_result
    /\ UNCHANGED <<args, pr, run_url>>
    /\ UNCHANGED others_than_rebase

\* rebase_onto, lines 33-40: the comment on the outcome of the push.
rebase_onto_comment ==
    /\ pc = "comment"
    /\ log' = Append(log,
          IF push_result = <<"Everything up-to-date">>
          THEN Comment(pr.pr_num, "already_up_to_date", "", <<>>, <<>>, args.dry_run)
          ELSE Comment(pr.pr_num, "success", OntoBranch(args.stable, pr), pr.head_ref, <<>>,
                       args.dry_run))
    /\ pc' = "returned"
    /\ UNCHANGED <<args, pr, run_url, exc, push_result>>
    /\ UNCHANGED others_than_rebase

\* rebase_ghstack_onto, lines 44-45: probe for ghstack, install it when missing.
rebase_ghstack_onto_help ==
    /\ pc = "ghstack_help"
    /\ \E installed \in BOOLEAN :
          log' = IF installed
                 THEN Append(log, Subprocess("ghstack --help"))
                 ELSE log \o <<Subprocess("ghstack --help"), Subprocess("pip install ghstack")>>
    /\ pc' = "ghstack_fetch"
    /\ UNCHANGED <<args, pr, run_url, exc, push_result>>
    /\ UNCHANGED others_than_rebase

\* rebase_ghstack_onto, line 49: repo.fetch(orig_ref, orig_ref)
rebase_ghstack_onto_fetch ==
    /\ pc = "ghstack_fetch"
    /\ log' = Append(log, GitFetch(OrigRef(pr)))
    /\ \/ pc' = "ghstack_rebase" /\ UNCHANGED exc
       \/ Raise("fetch failed")
    /\ UNCHANGED <<args, pr, run_url, push_result>>
    /\ UNCHANGED others_than_rebase

\* rebase_ghstack_onto, lines 50-57: the rebase, then OAUTH_TOKEN and .ghstackrc.
rebase_ghstack_onto_rebase ==
    /\ pc = "ghstack_rebase"
    /\ \/ /\ log' = log \o <<GitRebase(OntoBranch(args.stable, pr), OrigRef(pr)),
                             Subprocess("write .ghstackrc")>>
          /\ pc' = "ghstack"
          /\ UNCHANGED exc
       \/ /\ log' = Append(log, GitRebase(OntoBranch(args.stable, pr), OrigRef(pr)))
          /\ \E e \in {"rebase conflict", "KeyError: 'GITHUB_TOKEN'"} : Raise(e)
    /\ UNCHANGED <<args, pr, run_url, push_result>>
    /\ UNCHANGED others_than_rebase

\* rebase_ghstack_onto, lines 59-60: under dry_run ghstack is not run.
rebase_ghstack_onto_dry_run ==
    /\ pc = "ghstack"
    /\ args.dry_run
    /\ pc' = "returned"
    /\ UNCHANGED <<args, pr, run_url, log, exc, push_result>>
    /\ UNCHANGED others_than_rebase

\* rebase_ghstack_onto, lines 61-98: run ghstack; a non-zero exit raises,
\* otherwise each "Updated" line and a "Skipped" line of this PR are commented.
rebase_ghstack_onto_ghstack ==
    /\ pc = "ghstack"
    /\ ~args.dry_run
    /\ \/ /\ log' = Append(log, Subprocess("ghstack"))
          /\ Raise("ghstack exit")
          /\ UNCHANGED push_result
       \/ \E out \in GhstackOutputs :
            /\ push_result' = out
            /\ log' = log \o <<Subprocess("ghstack")>>
                          \o UpdatedComments(out, pr, OntoBranch(args.stable, pr), args.dry_run)
                          \o SkippedComment(out, pr, args.dry_run)
            /\ pc' = "returned"
            /\ UNCHANGED exc
    /\ UNCHANGED <<args, pr, run_url>>
    /\ UNCHANGED others_than_rebase

\* Mutant: the handler leaves out the "Raised by" line.
FailedTextNoUrl(e, url) == <<"Rebase failed due to", e>>

\* main, lines 118-121: msg = f"Rebase failed due to {e}", plus
\* f"\nRaised by {run_url}" when GH_RUN_URL is set.
FailedText(e, url) ==
    IF url # NoUrl
    THEN <<"Rebase failed due to", e, "Raised by", url>>
    ELSE <<"Rebase failed due to", e>>

\* main, lines 117-122: except Exception as e: comment, then fall off the end.
main_except ==
    /\ pc = "except"
    /\ log' = Append(log, Comment(args.pr_num, "failed", "", <<>>, FailedText(exc, run_url),
                                  args.dry_run))
    /\ pc' = "returned"
    /\ UNCHANGED <<args, pr, run_url, exc, push_result>>
    /\ UNCHANGED others_than_rebase

NextRebase ==
    \/ main_is_closed
    \/ main_try
    \/ rebase_onto_fetch
    \/ rebase_onto_rebase
    \/ rebase_onto_push
    \/ rebase_onto_comment
    \/ rebase_ghstack_onto_help
    \/ rebase_ghstack_onto_fetch
    \/ rebase_ghstack_onto_rebase
    \/ rebase_ghstack_onto_dry_run
    \/ rebase_ghstack_onto_ghstack
    \/ main_except

SpecRebase == InitRebase /\ [][NextRebase]_vars

(***************************************************************************)
(* tryrebase.main: claims                                                  *)
(***************************************************************************)

Events == {log[i] : i \in 1..Len(log)}

\* The comment f"PR #{args.pr_num} is closed, won't rebase".
ClosedComment == Comment(args.pr_num, "closed", "", <<>>, <<>>, args.dry_run)

\* C4: if the pull request is closed, main posts the comment "PR #<n> is
\* closed, won't rebase" on it and returns without any fetch, rebase, push or
\* ghstack invocation.
C4_ClosedOnlyComments ==
    pr.closed =>
        /\ pc \in {"main", "returned"}
        /\ Events \subseteq {ClosedComment}
        /\ pc = "returned" => log = <<ClosedComment>>

\* C4 witness: main has returned on a closed pull request.
C4_Witness ==
    /\ pr.closed
    /\ pc = "returned"
    /\ Len(log) = 1

\* C5: an exception raised by rebase_onto or rebase_ghstack_onto (failed fetch,
\* rebase conflict, failed push, non-zero ghstack exit) is caught by main, which
\* posts on the PR a comment beginning "Rebase failed due to <exception>", with
\* "Raised by <GH_RUN_URL>" appended when that variable is set, and returns
\* without re-raising.
C5_ExceptionCaughtAndReported ==
    exc # NoExc =>
        /\ pc \in {"except", "returned"}
        /\ pc = "returned" =>
             LET c == log[Len(log)]
             IN /\ c.op = "comment"
                /\ c.pr_num = args.pr_num
                /\ c.dry = args.dry_run
                /\ SubSeq(c.text, 1, 2) = <<"Rebase failed due to", exc>>
                /\ IF run_url # NoUrl
                   THEN SubSeq(c.text, 3, Len(c.text)) = <<"Raised by", run_url>>
                   ELSE Len(c.text) = 2

\* C5 witness: ghstack exited non-zero, GH_RUN_URL is set, and main has returned.
C5_Witness ==
    /\ exc = "ghstack exit"
    /\ run_url # NoUrl
    /\ pc = "returned"

ExpectedOnto == IF args.stable THEN VIABLE_STRICT ELSE pr.default_branch

\* C7: the PR is rebased onto refs/remotes/origin/viable/strict when --stable is
\* given and onto its default branch otherwise, for ordinary and ghstack PRs
\* alike, and the success comment names that same branch.
C7_OntoBranch ==
    /\ \A e \in Events :
          /\ e.op = "rebase" => e.onto = ExpectedOnto
          /\ (e.op = "comment" /\ e.what \in {"success", "rebased_because"}) =>
                 e.onto = ExpectedOnto
    /\ (pc = "returned" /\ ~pr.closed /\ exc = NoExc) =>
          \E e \in Events : e.op = "rebase"

\* C7 witness: a ghstack PR rebased with --stable and commented on success.
C7_Witness ==
    /\ args.stable
    /\ pr.ghstack
    /\ pc = "returned"
    /\ \E e \in Events : e.op = "rebase"
    /\ \E e \in Events : e.op = "comment" /\ e.what = "success"

(***************************************************************************)
(* cse.modify                                                              *)
(***************************************************************************)

\* Bound on the number of nodes between the placeholder and the output node.
MaxBody == 4

\* An argument of a node: a Node of graph g, an int, a list of Nodes of graph g,
\* or a list of ints (an immutable_list). v holds the node positions or the ints.
NodeArg(g, j) == [k |-> "node", g |-> g, v |-> <<j>>]
IntArg(c) == [k |-> "int", g |-> "", v |-> <<c>>]
NodeListArg(g, js) == [k |-> "list", g |-> g, v |-> js]
IntListArg(cs) == [k |-> "intlist", g |-> "", v |-> cs]

\* isinstance(a, torch.fx.node.Node)
IsNode(a) == a.k = "node"

\* A node: n.op, n.target, n.args, n.kwargs (a dict, kept as <<key, value>> pairs).
Node(op, target, args_, kwargs_) ==
    [op |-> op, target |-> target, args |-> args_, kwargs |-> kwargs_]

\* Targets whose result depends on more than their arguments: a random draw
\* (as the uniform reference) or a mutation of an argument (as copy_to).
ImpureTargets == {"uniform"}

\* The nodes that may follow the nodes read so far: one placeholder first;
\* then get_attr and call nodes over the earlier nodes, or the output node.
NextNodes(g) ==
    LET i == Len(g) + 1
        refs == {1, i - 1}
        pairs == {<<1, 1>>, <<1, i - 1>>} \cup (IF i > 2 THEN {<<i - 2, i - 1>>} ELSE {})
    IN IF i = 1 THEN {Node("placeholder", "x", <<>>, <<>>)}
       ELSE {Node("output", "output", <<NodeArg("fx_g", i - 1)>>, <<>>)}
            \cup (IF i - 1 > MaxBody THEN {} ELSE
                    {Node("get_attr", "w", <<>>, <<>>)}
               \cup {Node("call_function", t, <<NodeArg("fx_g", j)>>, <<>>) :
                        t \in {"cos", "uniform"}, j \in refs}
               \cup {Node("call_function", "sum", <<NodeArg("fx_g", 1), IntArg(c)>>, <<>>) :
                        c \in {0, 1}}
               \cup {Node("call_function", "sum", <<NodeArg("fx_g", 1), IntListArg(<<1>>)>>, <<>>)}
               \cup {Node("call_function", "sum", <<NodeArg("fx_g", 1)>>, <<<<"dim", IntArg(c)>>>>) :
                        c \in {0, 1}}
               \cup {Node("call_function", "cat", <<NodeListArg("fx_g", p)>>, <<>>) :
                        p \in pairs})

\* Mutant: get_attr nodes are hashed like call nodes.
IsCopiedOpWithoutGetAttr(op) == op \in {"placeholder", "output"}

\* modify, line 79: n.op == 'placeholder' or n.op == 'output' or n.op == 'get_attr'
IsCopiedOp(op) == op \in {"placeholder", "output", "get_attr"}

\* new_graph.node_copy(n, lambda x: env[x]): every Node in args and kwargs,
\* nested ones included, is replaced by env[x].
CopyArg(a, e) ==
    IF a.k \in {"node", "list"}
    THEN [a EXCEPT !.g = "new_graph", !.v = [i \in DOMAIN a.v |-> e[a.v[i]]]]
    ELSE a

node_copy(n, e) ==
    [n EXCEPT !.args = [i \in DOMAIN n.args |-> CopyArg(n.args[i], e)],
              !.kwargs = [i \in DOMAIN n.kwargs |->
                             <<n.kwargs[i][1], CopyArg(n.kwargs[i][2], e)>>]]

\* x in env, for an argument x of a node of the old graph.
InEnv(a, e) == IsNode(a) /\ a.g = "fx_g" /\ a.v[1] \in DOMAIN e

\* modify, lines 89-93: args[i] = env[args[i]] for the top-level Node arguments.
SubstArgs(as, e) ==
    [i \in DOMAIN as |->
        IF InEnv(as[i], e) THEN NodeArg("new_graph", e[as[i].v[1]]) ELSE as[i]]

\* modify, lines 90 and 94-96: list(n.kwargs) is the list of the keys, none of
\* which is a Node.
KwargsList(n) == [i \in DOMAIN n.kwargs |-> n.kwargs[i][1]]

\* fx_hash, lines 16-34. Python's hash is taken to be free of collisions on the
\* values used here, so the hash of [args, kwargs] is kept as that pair.
fx_hash(args_, kwargs_) == <<args_, kwargs_>>

\* modify, lines 97-98: hash_val = (n.target, hash_arg)
HashVal(n, e) == <<n.target, fx_hash(SubstArgs(n.args, e), KwargsList(n))>>

\* check_args, lines 38-49, on the positional arguments from position i on:
\* "True", "False", or "TypeError" (old_args[i] in env with an unhashable list).
RECURSIVE check_args(_, _, _, _)
check_args(new_args, old_args, e, i) ==
    IF Len(new_args) # Len(old_args) THEN "False"
    ELSE IF i > Len(new_args) THEN "True"
    ELSE IF new_args[i] # old_args[i]
         THEN IF ~IsNode(new_args[i]) THEN "False"
              ELSE IF old_args[i].k \in {"list", "intlist"} THEN "TypeError"
              ELSE IF ~InEnv(old_args[i], e) THEN "False"
              ELSE IF new_args[i] # NodeArg("new_graph", e[old_args[i].v[1]]) THEN "False"
              ELSE check_args(new_args, old_args, e, i + 1)
         ELSE check_args(new_args, old_args, e, i + 1)

\* check_args, lines 38-49, on the kwargs dicts: new_args[0] indexes the dict by
\* the int 0, which is not one of its (string) keys.
check_args_kwargs(new_kwargs, old_kwargs) ==
    IF Len(new_kwargs) # Len(old_kwargs) THEN "False"
    ELSE IF Len(new_kwargs) = 0 THEN "True"
    ELSE "KeyError"

\* check_same, lines 58-65
check_same(new_node, old_node, e) ==
    IF new_node.target # old_node.target THEN "False"
    ELSE LET a == check_args(new_node.args, old_node.args, e, 1)
         IN IF a # "True" THEN a
            ELSE check_args_kwargs(new_node.kwargs, old_node.kwargs)

\* modify, line 99: hash_val in hash_env and check_same(hash_env[hash_val], n, env)
Lookup(n) ==
    LET h == HashVal(n, env)
    IN IF h \in DOMAIN hash_env
       THEN check_same(new_graph[hash_env[h]], n, env)
       ELSE "False"

\* The value of an argument, given the values of the nodes computed so far.
IntVal(c) == [op |-> "int", t |-> "", a |-> <<>>, o |-> c]

ArgVal(a, vals) ==
    CASE a.k = "node" -> vals[a.v[1]]
      [] a.k = "int" -> IntVal(a.v[1])
      [] a.k = "list" -> [op |-> "list", t |-> "", a |-> [i \in DOMAIN a.v |-> vals[a.v[i]]], o |-> 0]
      [] OTHER -> [op |-> "list", t |-> "", a |-> [i \in DOMAIN a.v |-> IntVal(a.v[i])], o |-> 0]

\* Running the first n nodes of a graph in order, as GraphModule.forward does
\* (fx_g(t) and new_g(t) in check): the value of each node as a term over the
\* input, and the number of impure calls executed. A call of a pure target is
\* the term of its target and argument values; a call of an impure target also
\* depends on how many impure calls ran before it. The output node returns the
\* value of its argument.
RECURSIVE Run(_, _)
Run(g, n) ==
    IF n = 0 THEN [vals |-> <<>>, draws |-> 0]
    ELSE LET r == Run(g, n - 1)
             nd == g[n]
             impure == nd.op = "call_function" /\ nd.target \in ImpureTargets
             argvals == [i \in DOMAIN nd.args |-> ArgVal(nd.args[i], r.vals)]
             kwvals == [i \in DOMAIN nd.kwargs |->
                           [op |-> "kwarg", t |-> nd.kwargs[i][1],
                            a |-> <<ArgVal(nd.kwargs[i][2], r.vals)>>, o |-> 0]]
             v == IF nd.op = "output" THEN ArgVal(nd.args[1], r.vals)
                  ELSE [op |-> nd.op, t |-> nd.target, a |-> argvals \o kwvals,
                        o |-> IF impure THEN r.draws + 1 ELSE 0]
         IN [vals |-> Append(r.vals, v), draws |-> r.draws + (IF impure THEN 1 ELSE 0)]

\* The result of calling the graph: the value that reaches its output node.
Result(g) == Run(g, Len(g)).vals[Len(g)]

InitCSE ==
    /\ IdleQCM
    /\ IdleRebase
    /\ IdleRefs
    /\ graph = <<>>
    /\ new_graph = <<>>
    /\ env = <<>>
    /\ hash_env = <<>>
    /\ cse_pc = "loop"

\* modify, lines 79-81: placeholder, output and get_attr nodes are copied. The
\* output node is the last node of the graph: the loop ends and new_graph is
\* returned (line 112).
modify_copy ==
    /\ cse_pc = "loop"
    /\ \E n \in NextNodes(graph) :
        /\ IsCopiedOp(n.op)
        /\ graph' = Append(graph, n)
        /\ new_graph' = Append(new_graph, node_copy(n, env))
        /\ env' = Append(env, Len(new_graph) + 1)
        /\ cse_pc' = IF n.op = "output" THEN "done" ELSE "loop"
    /\ UNCHANGED hash_env
    /\ UNCHANGED others_than_cse

\* modify, lines 99-101: an equivalent node is known; n is not copied.
modify_eliminate ==
    /\ cse_pc = "loop"
    /\ \E n \in NextNodes(graph) :
        /\ ~IsCopiedOp(n.op)
        /\ Lookup(n) = "True"
        /\ graph' = Append(graph, n)
        /\ env' = Append(env, hash_env[HashVal(n, env)])
    /\ UNCHANGED <<new_graph, hash_env, cse_pc>>
    /\ UNCHANGED others_than_cse

\* modify, lines 108-110: n is copied and becomes the node of its hash_val.
modify_call ==
    /\ cse_pc = "loop"
    /\ \E n \in NextNodes(graph) :
        /\ ~IsCopiedOp(n.op)
        /\ Lookup(n) = "False"
        /\ graph' = Append(graph, n)
        /\ new_graph' = Append(new_graph, node_copy(n, env))
        /\ hash_env' = (HashVal(n, env) :> (Len(new_graph) + 1)) @@ hash_env
        /\ env' = Append(env, Len(new_graph) + 1)
    /\ UNCHANGED cse_pc
    /\ UNCHANGED others_than_cse

\* modify, line 99: check_same raises; modify returns no graph.
modify_raise ==
    /\ cse_pc = "loop"
    /\ \E n \in NextNodes(graph) :
        /\ ~IsCopiedOp(n.op)
        /\ Lookup(n) \in {"KeyError", "TypeError"}
        /\ graph' = Append(graph, n)
    /\ cse_pc' = "raised"
    /\ UNCHANGED <<new_graph, env, hash_env>>
    /\ UNCHANGED others_than_cse

NextCSE ==
    \/ modify_copy
    \/ modify_eliminate
    \/ modify_call
    \/ modify_raise

SpecCSE == InitCSE /\ [][NextCSE]_vars

(***************************************************************************)
(* cse.modify: claims                                                      *)
(***************************************************************************)

\* An argument with every Node replaced by its representative.
Canon(a, rep) ==
    IF a.k \in {"node", "list"} THEN [a EXCEPT !.v = [i \in DOMAIN a.v |-> rep[a.v[i]]]] ELSE a

\* Target, arguments and keyword arguments of a node up to representatives.
CanonCall(n, rep) ==
    <<n.target,
      [i \in DOMAIN n.args |-> Canon(n.args[i], rep)],
      [i \in DOMAIN n.kwargs |-> <<n.kwargs[i][1], Canon(n.kwargs[i][2], rep)>>]>>

\* The representative of each of the first n nodes of g: the earliest call node
\* with the same target and the same arguments, an argument that is itself a
\* duplicate counting as its representative; every other node is its own.
RECURSIVE Reps(_, _)
Reps(g, n) ==
    IF n = 0 THEN <<>>
    ELSE LET rep == Reps(g, n - 1)
             same == {j \in 1..(n - 1) :
                        /\ g[j].op = "call_function"
                        /\ rep[j] = j
                        /\ CanonCall(g[j], rep) = CanonCall(g[n], rep)}
         IN Append(rep, IF g[n].op = "call_function" /\ same # {}
                        THEN CHOOSE j \in same : TRUE
                        ELSE n)

\* The call nodes with the same target and arguments as an earlier call node.
Duplicates(g) == {i \in 1..Len(g) : Reps(g, Len(g))[i] # i}

HasImpure(g) == \E i \in 1..Len(g) : g[i].op = "call_function" /\ g[i].target \in ImpureTargets
HasNodeList(g) == \E i \in 1..Len(g) : \E j \in 1..Len(g[i].args) : g[i].args[j].k = "list"

\* C1: the graph returned by modify computes the same output as the original
\* graph, for every graph and input.
C1_SameOutput ==
    cse_pc = "done" => Result(new_graph) = Result(graph)

\* Output preservation on the graphs whose targets are all pure functions of
\* their arguments: there the merged nodes do compute equal values.
SameOutputOfPureGraphs ==
    (cse_pc = "done" /\ ~HasImpure(graph)) => Result(new_graph) = Result(graph)

\* C2: modify eliminates every call node with the same target and arguments as
\* an earlier call node (up to representatives): the new graph has exactly the
\* original node count minus the number of such duplicates.
C2_EliminatesEveryDuplicate ==
    cse_pc = "done" =>
        /\ Len(new_graph) = Len(graph) - Cardinality(Duplicates(graph))
        /\ \A i \in Duplicates(graph) : env[i] = env[Reps(graph, Len(graph))[i]]

\* Exact elimination on the graphs without a list of Nodes among the arguments
\* (of the graphs on which modify returns).
EliminatesEveryFlatDuplicate ==
    (cse_pc = "done" /\ ~HasNodeList(graph)) =>
        /\ Len(new_graph) = Len(graph) - Cardinality(Duplicates(graph))
        /\ \A i \in Duplicates(graph) : env[i] = env[Reps(graph, Len(graph))[i]]

\* No call node has the same target and the same arguments as an earlier one.
\* (Without such a pair every node is its own representative, so this is
\* Duplicates(g) = {}.)
NoDuplicateCall(g) ==
    \A i, j \in 1..Len(g) :
        (i < j /\ g[i].op = "call_function" /\ g[j].op = "call_function") =>
            ~(/\ g[i].target = g[j].target
              /\ g[i].args = g[j].args
              /\ g[i].kwargs = g[j].kwargs)

MaxDim == 3

\* Ranks of the input tensors.
Ranks == {1, 2, 3}

\* Python's t[d] for a tuple t and 0 <= d < len(t).
At(t, d) == t[d + 1]

\* The index tuples of a tensor of the given shape.
Indices(shape) ==
    IF \E d \in DOMAIN shape : shape[d] = 0
    THEN {}
    ELSE LET largest == CHOOSE m \in {shape[d] : d \in DOMAIN shape} :
                            \A d \in DOMAIN shape : shape[d] <= m
         IN  {i \in [DOMAIN shape -> 0..(largest - 1)] :
                 \A d \in DOMAIN shape : i[d] < shape[d]}

Tensor(shape, elems) == [shape |-> shape, elems |-> elems]

ndim(a) == Len(a.shape)

numel(a) == Cardinality(DOMAIN a.elems)

\* Position of index tuple i in the row-major order of a tensor of this shape.
RECURSIVE LinIndex(_, _)
LinIndex(shape, i) ==
    IF Len(shape) = 0 THEN 0
    ELSE LET r == Len(shape)
         IN  LinIndex(SubSeq(shape, 1, r - 1), SubSeq(i, 1, r - 1)) * shape[r] + i[r]

\* utils.canonicalize_dim for a dimension in -rank .. rank - 1.
canonicalize_dim(rank, idx) == IF idx < 0 THEN idx + rank ELSE idx

\* An argument of type DimsType: an int, or a tuple of ints.
IntArgOf(n) == [iter |-> FALSE, v |-> <<n>>]
TupleArgOf(t) == [iter |-> TRUE, v |-> t]

\* utils.canonicalize_dims: an int gives an int, a sequence gives a tuple.
canonicalize_dims(rank, dims) ==
    [iter |-> dims.iter,
     v |-> [p \in DOMAIN dims.v |-> canonicalize_dim(rank, dims.v[p])]]

\* prims.slice_in_dim(a, start, stop, axis) for 0 <= start <= stop <= size.
slice_in_dim(a, start, stop, axis) ==
    LET shape == [a.shape EXCEPT ![axis + 1] = stop - start]
    IN  Tensor(shape,
               [i \in Indices(shape) |-> a.elems[[i EXCEPT ![axis + 1] = @ + start]]])

\* prims.cat of two tensors that agree in every dimension but dim.
cat2(x, y, dim) ==
    LET shape == [x.shape EXCEPT ![dim + 1] = @ + At(y.shape, dim)]
    IN  Tensor(shape,
               [i \in Indices(shape) |->
                   IF At(i, dim) < At(x.shape, dim)
                   THEN x.elems[i]
                   ELSE y.elems[[i EXCEPT ![dim + 1] = @ - At(x.shape, dim)]]])

\* prims.cat(tensors, dim) for a non-empty tuple of tensors.
RECURSIVE prims_cat(_, _)
prims_cat(tensors, dim) ==
    IF Len(tensors) = 1 THEN tensors[1]
    ELSE cat2(prims_cat(SubSeq(tensors, 1, Len(tensors) - 1), dim),
              tensors[Len(tensors)], dim)

\* prims.rev(a, dims): the order of the elements is reversed along each of dims.
rev(a, dims) ==
    LET flipped == {dims[p] + 1 : p \in DOMAIN dims}
    IN  Tensor(a.shape,
               [i \in Indices(a.shape) |->
                   a.elems[[d \in DOMAIN i |->
                               IF d \in flipped THEN a.shape[d] - 1 - i[d] ELSE i[d]]]])

\* prims.transpose(a, permutation): dimension p of the result is dimension
\* permutation[p] of a.
prims_transpose(a, permutation) ==
    LET shape == [p \in DOMAIN a.shape |-> a.shape[permutation[p] + 1]]
    IN  Tensor(shape,
               [i \in Indices(shape) |->
                   a.elems[[d \in DOMAIN i |->
                               i[CHOOSE p \in DOMAIN i : permutation[p] + 1 = d]]]])

\* prims.collapse(a, 0, ndim): all dimensions merged into one, row-major.
collapse(a) ==
    LET shape == <<numel(a)>>
    IN  Tensor(shape,
               [i \in Indices(shape) |->
                   a.elems[CHOOSE j \in DOMAIN a.elems : LinIndex(a.shape, j) = i[1]]])

\* _reshape_view_helper(a, shape) for a 1-D tensor a of as many elements.
reshape(a, shape) ==
    Tensor(shape, [i \in Indices(shape) |-> a.elems[<<LinIndex(shape, i)>>]])

\* What a call gives: the tensor returned, or the exception raised.
Returned(t) == [raised |-> "", val |-> t]
NoTensor == Tensor(<<0>>, <<>>)
Raised(e) == [raised |-> e, val |-> NoTensor]

clone(a) == a

narrow(a, dim, start, length) ==
    LET dim_ == canonicalize_dim(ndim(a), dim)
    IN  slice_in_dim(a, start, start + length, dim_)

cat(tensors, dim) ==
    LET dim_ == canonicalize_dim(ndim(tensors[1]), dim)
        filtered == SelectSeq(tensors, LAMBDA x : ~(ndim(x) = 1 /\ numel(x) = 0))
    IN  IF Len(filtered) = 0
        THEN Tensor(<<0>>, <<>>)
        ELSE prims_cat(filtered, dim_)

flatten(a) ==
    LET start_dim == canonicalize_dim(ndim(a), 0)
        end_dim == canonicalize_dim(ndim(a), -1)
    IN  IF start_dim = end_dim /\ ndim(a) # 0 THEN a ELSE collapse(a)

view(a, shape) == reshape(a, shape)

\* flip: Returned, or Raised when a dimension is given twice.
flip(a, dims) ==
    LET dims_ == [p \in DOMAIN dims |-> canonicalize_dim(ndim(a), dims[p])]
    IN  IF \E p, q \in DOMAIN dims_ : p # q /\ dims_[p] = dims_[q]
        THEN Raised("RuntimeError")
        ELSE Returned(rev(a, dims_))

transpose(a, dim0, dim1) ==
    LET dim0_ == canonicalize_dim(ndim(a), dim0)
        dim1_ == canonicalize_dim(ndim(a), dim1)
        permutation == [p \in DOMAIN a.shape |->
                           IF p - 1 = dim0_ THEN dim1_
                           ELSE IF p - 1 = dim1_ THEN dim0_ ELSE p - 1]
    IN  IF ndim(a) <= 1 THEN a ELSE prims_transpose(a, permutation)

\* An int where a tuple is meant stands for the tuple of that one int.
AsTuple(x) == IF x.iter THEN x ELSE TupleArgOf(<<x.v[1]>>)

\* The slip of rolling towards the lower indices.
roll_start_backwards(size, shift) == shift % size

\* start of roll: the index of the input that comes first in the result.
roll_start(size, shift) == (size - shift) % size

RECURSIVE roll(_, _, _)
roll(a, shifts, dims) ==
    LET dims_ == AsTuple(canonicalize_dims(ndim(a), dims)).v
        shifts_ == AsTuple(shifts).v
        len_shifts == Len(shifts_)
        len_dims == Len(dims_)
    IN  IF numel(a) = 0 THEN Returned(clone(a))
        ELSE IF len_shifts # 1 \/ len_dims # 1
        THEN IF len_shifts = 0 THEN Raised("RuntimeError")
             ELSE IF len_dims = 0 /\ len_shifts = 1
             THEN LET flat == roll(flatten(a), TupleArgOf(shifts_), IntArgOf(0))
                  IN  IF flat.raised # "" THEN flat
                      ELSE Returned(view(flat.val, a.shape))
             ELSE IF len_shifts # len_dims THEN Raised("RuntimeError")
             ELSE LET tail_shifts == Tail(shifts_)
                      tail_dims == Tail(dims_)
                      first_dim_rolled == roll(a, IntArgOf(shifts_[1]), IntArgOf(dims_[1]))
                  IN  IF first_dim_rolled.raised # "" THEN first_dim_rolled
                      ELSE roll(first_dim_rolled.val, TupleArgOf(tail_shifts),
                                TupleArgOf(tail_dims))
        ELSE LET dim == dims_[1]
                 size == At(a.shape, dim)
                 start == roll_start(size, shifts_[1])
                 t0 == narrow(a, dim, start, size - start)
                 t1 == narrow(a, dim, 0, start)
             IN  Returned(cat(<<t0, t1>>, dim))

\* The slip of taking k as it is given.
rot90_k_as_given(k) == k

\* The number of quarter turns of rot90.
rot90_k(k) == k % 4

rot90(a, k, dims) ==
    LET dims_ == [p \in DOMAIN dims |-> canonicalize_dim(ndim(a), dims[p])]
    IN  IF Len(dims_) # 2 THEN Raised("RuntimeError")
        ELSE IF ndim(a) < 2 THEN Raised("RuntimeError")
        ELSE IF dims_[1] = dims_[2] THEN Raised("RuntimeError")
        ELSE LET k_ == rot90_k(k)
             IN  IF k_ = 1
                 THEN LET f == flip(a, <<dims_[2]>>)
                      IN  IF f.raised # "" THEN f
                          ELSE Returned(transpose(f.val, dims_[1], dims_[2]))
                 ELSE IF k_ = 2 THEN flip(a, dims_)
                 ELSE IF k_ = 3
                 THEN LET f == flip(a, <<dims_[1]>>)
                      IN  IF f.raised # "" THEN f
                          ELSE Returned(transpose(f.val, dims_[1], dims_[2]))
                 ELSE Returned(clone(a))

\* ---- the inputs ----

Shapes == UNION {[1..r -> 0..MaxDim] : r \in Ranks}

\* The input of a given shape: its elements are numbered in row-major
\* order, so that each can be told from the others.
InputTensor(shape) ==
    Tensor(shape, [i \in Indices(shape) |-> LinIndex(shape, i)])

\* Shifts reach beyond the largest size in both directions.
ShiftValues == (0 - (MaxDim + 2))..(MaxDim + 2)

\* Shifts of the calls that roll several dimensions.
PairShiftValues == {-1, MaxDim + 1}

DimValues(a) == (0 - ndim(a))..(ndim(a) - 1)

ShiftsArgs ==
    {IntArgOf(s) : s \in ShiftValues}
        \cup {TupleArgOf(<<s>>) : s \in ShiftValues}
        \cup {TupleArgOf(<<>>)}
        \cup {TupleArgOf(<<s, t>>) : s \in PairShiftValues, t \in PairShiftValues}

DimsArgs(a) ==
    {IntArgOf(d) : d \in DimValues(a)}
        \cup {TupleArgOf(<<d>>) : d \in DimValues(a)}
        \cup {TupleArgOf(<<>>)}
        \cup {TupleArgOf(<<d, e>>) : d \in DimValues(a), e \in DimValues(a)}

KValues == -5..6

Rot90Dims(a) ==
    {<<d>> : d \in DimValues(a)}
        \cup {<<d, e>> : d \in DimValues(a), e \in DimValues(a)}

NoArg == TupleArgOf(<<>>)
NoCall == [fn |-> "none", shifts |-> NoArg, dims |-> NoArg, k |-> 0]

InitRefs ==
    /\ \E shape \in Shapes : input = InputTensor(shape)
    /\ call = NoCall
    /\ ret = Returned(NoTensor)
    /\ refs_pc = "ready"
    /\ IdleQCM
    /\ IdleRebase
    /\ IdleCSE

roll_call ==
    /\ refs_pc = "ready"
    /\ \E shifts \in ShiftsArgs, dims \in DimsArgs(input) :
          /\ call' = [fn |-> "roll", shifts |-> shifts, dims |-> dims, k |-> 0]
          /\ ret' = roll(input, shifts, dims)
    /\ refs_pc' = "done"
    /\ UNCHANGED input
    /\ UNCHANGED others_than_refs

rot90_call ==
    /\ refs_pc = "ready"
    /\ \E k \in KValues, dims \in Rot90Dims(input) :
          /\ call' = [fn |-> "rot90", shifts |-> NoArg, dims |-> TupleArgOf(dims), k |-> k]
          /\ ret' = rot90(input, k, dims)
    /\ refs_pc' = "done"
    /\ UNCHANGED input
    /\ UNCHANGED others_than_refs

NextRefs == roll_call \/ rot90_call

SpecRefs == InitRefs /\ [][NextRefs]_vars

\* ---- claims about roll and rot90 ----

\* How often value v occurs among the elements of tensor a.
Count(a, v) == Cardinality({i \in DOMAIN a.elems : a.elems[i] = v})

\* The call rolled one dimension: shifts and dims are each an int or a
\* tuple of one int.
RolledOneDim ==
    /\ refs_pc = "done"
    /\ call.fn = "roll"
    /\ Len(call.shifts.v) = 1
    /\ Len(call.dims.v) = 1

RolledDim == canonicalize_dim(ndim(input), call.dims.v[1])

\* C11: roll along one dimension of size n > 0 by any integer shift,
\* negative or of magnitude n and more, returns a tensor of the same shape
\* whose element at index i along that dimension is the input's element at
\* (i - shift) mod n, which is to say that the element at j goes to
\* (j + shift) mod n; every value occurs as often in the result as in the
\* input.
C11_RollMovesByShiftModN ==
    RolledOneDim /\ At(input.shape, RolledDim) > 0 =>
        LET n == At(input.shape, RolledDim)
            shift == call.shifts.v[1]
            p == RolledDim + 1
        IN  /\ ret.raised = ""
            /\ ret.val.shape = input.shape
            /\ \A i \in DOMAIN input.elems :
                  /\ i \in DOMAIN ret.val.elems
                  /\ ret.val.elems[i] = input.elems[[i EXCEPT ![p] = (@ - shift) % n]]
                  /\ ret.val.elems[[i EXCEPT ![p] = (@ + shift) % n]] = input.elems[i]
                  /\ Count(ret.val, input.elems[i]) = Count(input, input.elems[i])

\* A roll by a negative shift of magnitude at least n that moved elements.
C11_Witness ==
    /\ RolledOneDim
    /\ At(input.shape, RolledDim) >= 2
    /\ call.shifts.v[1] < 0
    /\ 0 - call.shifts.v[1] >= At(input.shape, RolledDim)
    /\ ret.raised = ""
    /\ ret.val # input

\* The k = 1 rotation applied n times in succession.
RECURSIVE QuarterTurns(_, _, _)
QuarterTurns(a, n, dims) ==
    IF n = 0 THEN a ELSE rot90(QuarterTurns(a, n - 1, dims), 1, dims).val

Rotated ==
    /\ refs_pc = "done"
    /\ call.fn = "rot90"
    /\ ret.raised = ""

\* C12: rot90(a, k, dims) is the k = 1 rotation applied (k mod 4) times,
\* for every integer k, negative ones included: k = 0 returns the elements
\* where they are, k = -1 gives what k = 3 gives, and four k = 1 rotations
\* in succession give back the input.
C12_Rot90IsKMod4QuarterTurns ==
    Rotated =>
        /\ ret.val = QuarterTurns(input, call.k % 4, call.dims.v)
        /\ (call.k % 4 = 0 => ret.val = input)
        /\ (call.k = -1 => ret = rot90(input, 3, call.dims.v))
        /\ QuarterTurns(input, 4, call.dims.v) = input
        /\ ret = rot90(input, call.k + 4, call.dims.v)

\* A rotation by k = -1 of a tensor that is not square in the rotated
\* dimensions.
C12_Witness ==
    /\ Rotated
    /\ call.k = -1
    /\ ret.val.shape # input.shape
    /\ numel(input) > 1

====
